---- MODULE Spec2Model ----
(***************************************************************************)
(* A model of bwx.py: the clipboard hold of CopyCommand (the copy, the     *)
(* detached timer process, the hold-pid file, SIGTERM cancellation) and    *)
(* the session-token cache of Session.                                     *)
(*                                                                         *)
(* The unit of concurrency is the OS process.  Every action is one step of *)
(* one process between two points where it touches state shared with the   *)
(* other processes (the hold-pid file, the cache file, signals, the sink). *)
(***************************************************************************)
EXTENDS Integers, Sequences, FiniteSets, TLC

\* ---------------------------------------------------------------- bounds
\* Number of copy invocations (bwx cp ...) that may run, in any interleaving.
NumCopies == 2
\* clipboard_clear_timeout in clock ticks (Config.validate requires > 0).
Timeout == 1
\* How many timers an uncatchable signal (SIGKILL) may kill.
MaxCrashes == 1

Copies == 1..NumCopies
\* The timer forked by copy c has process id c.
Timers == Copies
\* Every invocation of bwx first resolves its session token (Bwx.run, line 160).
Procs == Copies

VARIABLES
  copy_enabled,   \* Config.is_copy_enabled()
  clear_enabled,  \* Config.is_clear_enabled()
  pc,             \* pc[c]: where copy invocation c stands in CopyCommand.execute
  pid,            \* pid[c]: the local variable pid of _copy_clear_cancel (0: unset)
  kill_result,    \* kill_result[c]: outcome of os.kill in _copy_clear_cancel
  tpc,            \* tpc[t]: where timer process t stands in _copy_clear_fork
  sigpending,     \* sigpending[t]: a SIGTERM was sent to t and is not handled yet
  fd_linked,      \* fd_linked[t]: the file t opened for writing is still at the path
  remaining,      \* remaining[t]: ticks left of t's time.sleep
  clears,         \* clears[t]: how many times t has run clipboard_clear_cmd
  sigterm_when,   \* sigterm_when[t]: tpc[t] at the moment SIGTERM was first sent to t
  pid_file,       \* the hold-pid file: [exists, text]; text is <<>> or <<pid>>
  sink,           \* what the clipboard holds: 0 nothing, c the secret of copy c
  crashed,        \* timers killed by an uncatchable signal
  env,            \* env[p]: BW_SESSION in the environment of invocation p: [set, val]
  env0,           \* env0[p]: env[p] as inherited when p was started
  spc,            \* spc[p]: where invocation p stands in Session.unlock
  token,          \* token[p]: the local variable token of Session.unlock
  session_file,   \* the cache file <transient_dir>/BW_SESSION: [exists, text, mode]
  session_file0,  \* the cache file before any invocation ran
  umask,          \* the file mode creation mask of the invocations
  unlock_out,     \* unlock_out[p]: what bw unlock --raw did for p: [ran, rc, out]
  cache_reads,    \* cache_reads[p]: how many times p read the cache file
  cache_writes    \* cache_writes[p]: how many times p created or wrote the cache file

copy_vars == <<pc, pid, kill_result>>
timer_vars == <<tpc, sigpending, fd_linked, remaining, clears, sigterm_when>>
cfg_vars == <<copy_enabled, clear_enabled>>
hold_vars == <<copy_enabled, clear_enabled, pc, pid, kill_result, tpc,
               sigpending, fd_linked, remaining, clears, sigterm_when, pid_file, sink,
               crashed>>
session_vars == <<env, env0, spc, token, session_file, session_file0, umask,
                  unlock_out, cache_reads, cache_writes>>
vars == <<hold_vars, session_vars>>

\* ------------------------------------------------------------ hold-pid file
Absent == [exists |-> FALSE, text |-> <<>>]

\* Path.write_text opens with O_CREAT|O_TRUNC: the file exists and is empty.
Truncated == [exists |-> TRUE, text |-> <<>>]

\* The file after str(pid) was written and flushed.
Written(p) == [exists |-> TRUE, text |-> <<p>>]

\* A process with this id exists (os.kill finds it).
Alive(t) == t \in Timers /\ tpc[t] \notin {"none", "dead", "killed"}

\* The SIGTERM handler of line 120 is installed in timer t.
HandlerInstalled(t) == tpc[t] \in {"open", "write", "sleep", "clear", "cleanup", "exit"}

\* ------------------------------------------------------------------- Init
\* The clipboard hold before any copy: no timer, no hold-pid file.
HoldInit ==
  /\ copy_enabled \in BOOLEAN
  /\ clear_enabled \in BOOLEAN
  /\ pc = [c \in Copies |-> "idle"]
  /\ pid = [c \in Copies |-> 0]
  /\ kill_result = [c \in Copies |-> "none"]
  /\ tpc = [t \in Timers |-> "none"]
  /\ sigpending = [t \in Timers |-> FALSE]
  /\ fd_linked = [t \in Timers |-> FALSE]
  /\ remaining = [t \in Timers |-> 0]
  /\ clears = [t \in Timers |-> 0]
  /\ sigterm_when = [t \in Timers |-> "none"]
  /\ pid_file = Absent
  /\ sink = 0
  /\ crashed = {}

\* ------------------------------------------------------------- Session
\* Characters of a token string: "t" and "s" stand for token characters, " "
\* for whitespace.
Whitespace == {" "}

\* What bw unlock --raw may print: nothing, whitespace, a token, a token in
\* whitespace, a token with whitespace inside.
UnlockOutputs == {<<>>, <<" ">>, <<"t">>, <<" ", "t", " ">>, <<"t", " ", "t">>}

RECURSIVE LStrip(_)
LStrip(str) ==
  IF str # <<>> /\ Head(str) \in Whitespace THEN LStrip(Tail(str)) ELSE str

RECURSIVE RStrip(_)
RStrip(str) ==
  IF str # <<>> /\ str[Len(str)] \in Whitespace
    THEN RStrip(SubSeq(str, 1, Len(str) - 1)) ELSE str

\* str.strip()
Strip(str) == RStrip(LStrip(str))

\* Permission bits of a file mode.
Mode600 == {"ur", "uw"}
Mode644 == {"ur", "uw", "gr", "or"}
Umask022 == {"gw", "ow"}
Umask077 == {"gr", "gw", "gx", "or", "ow", "ox"}

NoFile == [exists |-> FALSE, text |-> <<>>, mode |-> {}]
Unset == [set |-> FALSE, val |-> <<>>]
NotRun == [ran |-> FALSE, rc |-> 0, out |-> <<>>]

\* The session state with nothing inherited and nothing cached.
SessionIdle ==
  /\ env = [p \in Procs |-> Unset]
  /\ env0 = env
  /\ spc = [p \in Procs |-> "start"]
  /\ token = [p \in Procs |-> <<>>]
  /\ session_file = NoFile
  /\ session_file0 = session_file
  /\ umask = Umask077
  /\ unlock_out = [p \in Procs |-> NotRun]
  /\ cache_reads = [p \in Procs |-> 0]
  /\ cache_writes = [p \in Procs |-> 0]

\* The cache file before the invocations, left by an earlier run or by the
\* user: absent; empty, private or world-readable; holding a token; holding
\* whitespace.  _save_session runs only on a file that is absent or empty, so
\* the mode of a file that holds text plays no part.
CacheFiles ==
  {NoFile} \cup [exists : {TRUE}, text : {<<>>}, mode : {Mode600, Mode644}]
           \cup [exists : {TRUE}, text : {<<"s">>, <<" ">>}, mode : {Mode600}]

\* Invocations start with BW_SESSION unset, empty or holding a token.  The
\* umask plays a part only where the cache file is created.
SessionInit ==
  /\ env \in [Procs -> {Unset, [set |-> TRUE, val |-> <<>>], [set |-> TRUE, val |-> <<"e">>]}]
  /\ env0 = env
  /\ spc = [p \in Procs |-> "start"]
  /\ token = [p \in Procs |-> <<>>]
  /\ session_file \in CacheFiles
  /\ session_file0 = session_file
  /\ umask \in IF session_file.exists THEN {Umask077} ELSE {Umask022, Umask077}
  /\ unlock_out = [p \in Procs |-> NotRun]
  /\ cache_reads = [p \in Procs |-> 0]
  /\ cache_writes = [p \in Procs |-> 0]

\* GetEnv that does not consult the environment first.
GetEnv_IgnoresEnv(p) ==
  /\ spc[p] = "start"
  /\ token' = [token EXCEPT ![p] = <<>>]
  /\ spc' = [spc EXCEPT ![p] = "load"]
  /\ UNCHANGED <<env, env0, session_file, session_file0, umask, unlock_out,
                 cache_reads, cache_writes, hold_vars>>

\* Lines 71-72: token = os.getenv(SESSION_ENV); if token: return token
GetEnv(p) ==
  /\ spc[p] = "start"
  /\ token' = [token EXCEPT ![p] = env[p].val]
  /\ spc' = [spc EXCEPT ![p] = IF env[p].val # <<>> THEN "returned" ELSE "load"]
  /\ UNCHANGED <<env, env0, session_file, session_file0, umask, unlock_out,
                 cache_reads, cache_writes, hold_vars>>

\* Lines 73-74, 82-86: token = self._load_session(): the text of the file as
\* read_text returns it, "" when there is no file; if not token: ...
LoadSession(p) ==
  /\ spc[p] = "load"
  /\ LET text == IF session_file.exists THEN session_file.text ELSE <<>> IN
       /\ token' = [token EXCEPT ![p] = text]
       /\ spc' = [spc EXCEPT ![p] = IF text = <<>> THEN "unlock" ELSE "setenv"]
  /\ cache_reads' = [cache_reads EXCEPT ![p] = IF session_file.exists THEN @ + 1 ELSE @]
  /\ UNCHANGED <<env, env0, session_file, session_file0, umask, unlock_out,
                 cache_writes, hold_vars>>

\* RunUnlock without the strip: whitespace counts as a token.
RunUnlock_NoStrip(p, rc, out) ==
  /\ spc[p] = "unlock"
  /\ rc # 0 => out = <<>>
  /\ unlock_out' = [unlock_out EXCEPT ![p] = [ran |-> TRUE, rc |-> rc, out |-> out]]
  /\ IF rc # 0
       THEN spc' = [spc EXCEPT ![p] = "raise_SubprocessError"] /\ UNCHANGED token
       ELSE /\ token' = [token EXCEPT ![p] = out]
            /\ spc' = [spc EXCEPT ![p] =
                         IF out = <<>> THEN "raise_ValueError" ELSE "touch"]
  /\ UNCHANGED <<env, env0, session_file, session_file0, umask, cache_reads,
                 cache_writes, hold_vars>>

\* Lines 76-77: subprocess.check_output([bw, "unlock", "--raw"]).strip():
\* CalledProcessError on a non-zero exit; ValueError on an empty token.
RunUnlock(p, rc, out) ==
  /\ spc[p] = "unlock"
  /\ rc # 0 => out = <<>>
  /\ unlock_out' = [unlock_out EXCEPT ![p] = [ran |-> TRUE, rc |-> rc, out |-> out]]
  /\ IF rc # 0
       THEN spc' = [spc EXCEPT ![p] = "raise_SubprocessError"] /\ UNCHANGED token
       ELSE /\ token' = [token EXCEPT ![p] = Strip(out)]
            /\ spc' = [spc EXCEPT ![p] =
                         IF Strip(out) = <<>> THEN "raise_ValueError" ELSE "touch"]
  /\ UNCHANGED <<env, env0, session_file, session_file0, umask, cache_reads,
                 cache_writes, hold_vars>>

\* Line 90: self.session_file.touch(mode=0o600, exist_ok=True): an absent file
\* is created with mode 0o600 & ~umask; an existing one keeps its mode.
SaveTouch(p) ==
  /\ spc[p] = "touch"
  /\ session_file' = IF session_file.exists THEN session_file
                     ELSE [exists |-> TRUE, text |-> <<>>, mode |-> Mode600 \ umask]
  /\ cache_writes' = [cache_writes EXCEPT ![p] = @ + 1]
  /\ spc' = [spc EXCEPT ![p] = "open"]
  /\ UNCHANGED <<env, env0, token, session_file0, umask, unlock_out, cache_reads,
                 hold_vars>>

\* Line 91, first half: write_text opens the file and truncates it.
SaveOpen(p) ==
  /\ spc[p] = "open"
  /\ session_file' = [session_file EXCEPT !.text = <<>>]
  /\ cache_writes' = [cache_writes EXCEPT ![p] = @ + 1]
  /\ spc' = [spc EXCEPT ![p] = "write"]
  /\ UNCHANGED <<env, env0, token, session_file0, umask, unlock_out, cache_reads,
                 hold_vars>>

\* Line 91, second half: the token is written and the file closed.
SaveWrite(p) ==
  /\ spc[p] = "write"
  /\ session_file' = [session_file EXCEPT !.text = token[p]]
  /\ cache_writes' = [cache_writes EXCEPT ![p] = @ + 1]
  /\ spc' = [spc EXCEPT ![p] = "setenv"]
  /\ UNCHANGED <<env, env0, token, session_file0, umask, unlock_out, cache_reads,
                 hold_vars>>

\* Lines 79-80: os.environ[SESSION_ENV] = token; return token
SetEnv(p) ==
  /\ spc[p] = "setenv"
  /\ env' = [env EXCEPT ![p] = [set |-> TRUE, val |-> token[p]]]
  /\ spc' = [spc EXCEPT ![p] = "returned"]
  /\ UNCHANGED <<env0, token, session_file, session_file0, umask, unlock_out,
                 cache_reads, cache_writes, hold_vars>>

\* Session.unlock of invocation p, lines 70-80.
Unlock(p) ==
  \/ GetEnv(p)
  \/ LoadSession(p)
  \/ \E rc \in {0, 1}, out \in UnlockOutputs : RunUnlock(p, rc, out)
  \/ SaveTouch(p)
  \/ SaveOpen(p)
  \/ SaveWrite(p)
  \/ SetEnv(p)

\* The clipboard hold with its configuration complete and nothing under way.
HoldIdle ==
  /\ HoldInit
  /\ copy_enabled /\ clear_enabled

SessionNext == \E p \in Procs : Unlock(p)

\* The invocations of bwx about to resolve their session token.
SessionStart == SessionInit /\ HoldIdle

\* Token resolution alone: the invocations of bwx up to the end of Session.unlock.
SessionSpec == SessionStart /\ [][SessionNext]_vars

Init == HoldInit /\ SessionIdle

\* --------------------------------------------------- CopyCommand.execute
\* Timer t has not reached the end of its timeout yet.
BeforeTimeout(t) ==
  \/ tpc[t] \in {"forked", "open", "write"}
  \/ tpc[t] = "sleep" /\ remaining[t] > 0

\* Execute that cancels the pending timer before it looks at the outcome of
\* bw get password.
Execute_CancelFirst(c, got) ==
  /\ pc[c] = "idle"
  /\ pc' = [pc EXCEPT ![c] =
              IF ~copy_enabled THEN "raise_ValueError"
              ELSE IF ~got THEN "abandoned"
              ELSE "isfile"]
  /\ sigpending' = [t \in Timers |->
                      IF copy_enabled /\ pid_file = Written(t) /\ Alive(t)
                        THEN TRUE ELSE sigpending[t]]
  /\ UNCHANGED <<pid, kill_result, tpc, fd_linked, remaining, clears, sigterm_when,
                 cfg_vars, pid_file, sink, crashed, session_vars>>

\* Lines 100-106: the configuration check, bw get password, Popen of the copy
\* sink.  got is whether bw get password exited zero.
Execute(c, got) ==
  /\ pc[c] = "idle"
  /\ pc' = [pc EXCEPT ![c] =
              IF ~copy_enabled THEN "raise_ValueError"
              ELSE IF ~got THEN "abandoned"
              ELSE "isfile"]
  /\ UNCHANGED <<pid, kill_result, timer_vars, cfg_vars, pid_file, sink, crashed,
                 session_vars>>

\* Line 132: if not self.pid_file.is_file(): return
CancelIsFile(c) ==
  /\ pc[c] = "isfile"
  /\ pc' = [pc EXCEPT ![c] = IF pid_file.exists THEN "read" ELSE "communicate"]
  /\ UNCHANGED <<pid, kill_result, timer_vars, cfg_vars, pid_file, sink, crashed, session_vars>>

\* Line 133: pid = int(self.pid_file.read_text()).  A file unlinked since
\* is_file raises FileNotFoundError (an OSError), an empty one ValueError;
\* neither is caught in execute, and __main__ exits 1.
CancelRead(c) ==
  /\ pc[c] = "read"
  /\ IF ~pid_file.exists
       THEN pc' = [pc EXCEPT ![c] = "raise_OSError"] /\ UNCHANGED pid
       ELSE IF pid_file.text = <<>>
         THEN pc' = [pc EXCEPT ![c] = "raise_ValueError"] /\ UNCHANGED pid
         ELSE /\ pc' = [pc EXCEPT ![c] = "kill"]
              /\ pid' = [pid EXCEPT ![c] = pid_file.text[1]]
  /\ UNCHANGED <<kill_result, timer_vars, cfg_vars, pid_file, sink, crashed, session_vars>>

\* Who holds a process id that no live timer holds: nobody, a process of the
\* invoking user that is no timer of bwx (the id was reused), a process of
\* another user.
Holders == {"nobody", "own", "other"}

\* CancelKill without the except clause: ProcessLookupError (an OSError)
\* leaves execute.
CancelKill_Uncaught(c, holder) ==
  /\ pc[c] = "kill"
  /\ IF Alive(pid[c])
       THEN /\ holder = "nobody"
            /\ sigpending' = [sigpending EXCEPT ![pid[c]] = TRUE]
            /\ sigterm_when' = [sigterm_when EXCEPT ![pid[c]] =
                                  IF @ = "none" THEN tpc[pid[c]] ELSE @]
            /\ kill_result' = [kill_result EXCEPT ![c] = "sent"]
            /\ pc' = [pc EXCEPT ![c] = "communicate"]
       ELSE /\ kill_result' = [kill_result EXCEPT ![c] =
                                 CASE holder = "nobody" -> "notfound"
                                   [] holder = "own" -> "foreign"
                                   [] holder = "other" -> "denied"]
            /\ pc' = [pc EXCEPT ![c] =
                        IF holder = "own" THEN "communicate" ELSE "raise_OSError"]
            /\ UNCHANGED <<sigpending, sigterm_when>>
  /\ UNCHANGED <<pid, tpc, fd_linked, remaining, clears, cfg_vars, pid_file, sink, crashed, session_vars>>

\* Lines 134-139: os.kill(pid, SIGTERM).  The pid of a live timer: the signal
\* is sent.  The pid of a timer that is gone: the kernel decides by whoever
\* holds that id now: nobody, ProcessLookupError, which is caught; a process of
\* the same user, which gets the signal; a process of another user,
\* PermissionError, which is an OSError that nothing in execute catches, so
\* that __main__ exits 1.
CancelKill(c, holder) ==
  /\ pc[c] = "kill"
  /\ IF Alive(pid[c])
       THEN /\ holder = "nobody"
            /\ sigpending' = [sigpending EXCEPT ![pid[c]] = TRUE]
            /\ sigterm_when' = [sigterm_when EXCEPT ![pid[c]] =
                                  IF @ = "none" THEN tpc[pid[c]] ELSE @]
            /\ kill_result' = [kill_result EXCEPT ![c] = "sent"]
            /\ pc' = [pc EXCEPT ![c] = "communicate"]
       ELSE /\ kill_result' = [kill_result EXCEPT ![c] =
                                 CASE holder = "nobody" -> "notfound"
                                   [] holder = "own" -> "foreign"
                                   [] holder = "other" -> "denied"]
            /\ pc' = [pc EXCEPT ![c] =
                        IF holder = "other" THEN "raise_OSError" ELSE "communicate"]
            /\ UNCHANGED <<sigpending, sigterm_when>>
  /\ UNCHANGED <<pid, tpc, fd_linked, remaining, clears, cfg_vars, pid_file, sink, crashed, session_vars>>

\* Line 108: copy_process.communicate(pw): the secret is in the copy sink.
Communicate(c) ==
  /\ pc[c] = "communicate"
  /\ sink' = c
  /\ pc' = [pc EXCEPT ![c] = "fork"]
  /\ UNCHANGED <<pid, kill_result, timer_vars, cfg_vars, pid_file, crashed, session_vars>>

\* Fork with the test of is_clear_enabled inverted: no timer is forked although
\* a clear sink is configured.
Fork_ClearCheckInverted(c) ==
  /\ pc[c] = "fork"
  /\ tpc' = [tpc EXCEPT ![c] = IF ~clear_enabled THEN "forked" ELSE @]
  /\ pc' = [pc EXCEPT ![c] = "returned"]
  /\ UNCHANGED <<pid, kill_result, sigpending, fd_linked, remaining, clears,
                 sigterm_when, cfg_vars, pid_file, sink, crashed, session_vars>>

\* Lines 113-116: _copy_clear_fork in the parent: return when no clear sink is
\* configured, else fork and return.
Fork(c) ==
  /\ pc[c] = "fork"
  /\ tpc' = [tpc EXCEPT ![c] = IF clear_enabled THEN "forked" ELSE @]
  /\ pc' = [pc EXCEPT ![c] = "returned"]
  /\ UNCHANGED <<pid, kill_result, sigpending, fd_linked, remaining, clears,
                 sigterm_when, cfg_vars, pid_file, sink, crashed, session_vars>>

\* ------------------------------------- _copy_clear_fork, the timer process
\* Lines 117-120: getpid, setsid, signal.signal(SIGTERM, ...).
TimerInstall(t) ==
  /\ tpc[t] = "forked"
  /\ tpc' = [tpc EXCEPT ![t] = "open"]
  /\ UNCHANGED <<copy_vars, sigpending, fd_linked, remaining, clears, sigterm_when,
                 cfg_vars, pid_file, sink, crashed, session_vars>>

\* TimerOpen that opens the file without truncating it (mode "a").
TimerOpen_Append(t) ==
  /\ tpc[t] = "open"
  /\ pid_file' = IF pid_file.exists THEN pid_file ELSE Truncated
  /\ fd_linked' = [fd_linked EXCEPT ![t] = TRUE]
  /\ tpc' = [tpc EXCEPT ![t] = "write"]
  /\ UNCHANGED <<copy_vars, sigpending, remaining, clears, sigterm_when, cfg_vars,
                 sink, crashed, session_vars>>

\* Line 122, first half: write_text opens the file, creating or truncating it.
TimerOpen(t) ==
  /\ tpc[t] = "open"
  /\ pid_file' = Truncated
  /\ fd_linked' = [fd_linked EXCEPT ![t] = TRUE]
  /\ tpc' = [tpc EXCEPT ![t] = "write"]
  /\ UNCHANGED <<copy_vars, sigpending, remaining, clears, sigterm_when, cfg_vars,
                 sink, crashed, session_vars>>

\* Line 122, second half: the pid is written and the file closed; line 124:
\* time.sleep begins.  A file unlinked since the open takes the text with it.
TimerWrite(t) ==
  /\ tpc[t] = "write"
  /\ pid_file' = IF fd_linked[t] THEN Written(t) ELSE pid_file
  /\ fd_linked' = [fd_linked EXCEPT ![t] = FALSE]
  /\ remaining' = [remaining EXCEPT ![t] = Timeout]
  /\ tpc' = [tpc EXCEPT ![t] = "sleep"]
  /\ UNCHANGED <<copy_vars, sigpending, clears, sigterm_when, cfg_vars, sink, crashed, session_vars>>

\* Time passes: every sleeping timer is one tick nearer its deadline.
Tick ==
  /\ \E t \in Timers : tpc[t] = "sleep" /\ remaining[t] > 0
  /\ remaining' = [t \in Timers |->
                     IF tpc[t] = "sleep" /\ remaining[t] > 0
                       THEN remaining[t] - 1 ELSE remaining[t]]
  /\ UNCHANGED <<copy_vars, tpc, sigpending, fd_linked, clears, sigterm_when,
                 cfg_vars, pid_file, sink, crashed, session_vars>>

\* TimerWake with a sleep that may return before the timeout.
TimerWake_NoTimeout(t) ==
  /\ tpc[t] = "sleep"
  /\ ~sigpending[t]
  /\ tpc' = [tpc EXCEPT ![t] = "clear"]
  /\ UNCHANGED <<copy_vars, sigpending, fd_linked, remaining, clears, sigterm_when,
                 cfg_vars, pid_file, sink, crashed, session_vars>>

\* Line 124: time.sleep returns once the timeout has elapsed.  A signal that
\* arrives during the sleep interrupts it and runs the handler instead.
TimerWake(t) ==
  /\ tpc[t] = "sleep"
  /\ remaining[t] = 0
  /\ ~sigpending[t]
  /\ tpc' = [tpc EXCEPT ![t] = "clear"]
  /\ UNCHANGED <<copy_vars, sigpending, fd_linked, remaining, clears, sigterm_when,
                 cfg_vars, pid_file, sink, crashed, session_vars>>

\* Line 126: subprocess.run(clipboard_clear_cmd).
TimerClear(t) ==
  /\ tpc[t] = "clear"
  /\ sink' = 0
  /\ clears' = [clears EXCEPT ![t] = @ + 1]
  /\ tpc' = [tpc EXCEPT ![t] = "cleanup"]
  /\ UNCHANGED <<copy_vars, sigpending, fd_linked, remaining, sigterm_when,
                 cfg_vars, pid_file, crashed, session_vars>>

\* Line 144: self.pid_file.unlink(missing_ok=True).  Whatever another timer has
\* open at the path is no longer linked there.
Unlink ==
  /\ pid_file' = Absent
  /\ fd_linked' = [t \in Timers |-> FALSE]

\* The finally clause without the unlink: the timer just exits.
TimerCleanup_NoUnlink(t) ==
  /\ tpc[t] = "cleanup"
  /\ tpc' = [tpc EXCEPT ![t] = "exit"]
  /\ UNCHANGED <<copy_vars, sigpending, fd_linked, remaining, clears, sigterm_when,
                 cfg_vars, pid_file, sink, crashed, session_vars>>

\* Line 128: _copy_clear_cleanup() from the finally clause.
TimerCleanup(t) ==
  /\ tpc[t] = "cleanup"
  /\ Unlink
  /\ tpc' = [tpc EXCEPT ![t] = "exit"]
  /\ UNCHANGED <<copy_vars, sigpending, remaining, clears, sigterm_when, cfg_vars,
                 sink, crashed, session_vars>>

\* Line 129: os._exit(0).
TimerExit(t) ==
  /\ tpc[t] = "exit"
  /\ tpc' = [tpc EXCEPT ![t] = "dead"]
  /\ UNCHANGED <<copy_vars, sigpending, fd_linked, remaining, clears, sigterm_when,
                 cfg_vars, pid_file, sink, crashed, session_vars>>

\* The SIGTERM handler without os._exit: it unlinks the file and returns, and
\* the timer goes on where it was.
TimerSigterm_NoExit(t) ==
  /\ sigpending[t]
  /\ HandlerInstalled(t)
  /\ Unlink
  /\ sigpending' = [sigpending EXCEPT ![t] = FALSE]
  /\ UNCHANGED <<copy_vars, tpc, remaining, clears, sigterm_when, cfg_vars, sink,
                 crashed, session_vars>>

\* The SIGTERM handler without the unlink: it only calls os._exit.
TimerSigterm_NoUnlink(t) ==
  /\ sigpending[t]
  /\ HandlerInstalled(t)
  /\ sigpending' = [sigpending EXCEPT ![t] = FALSE]
  /\ fd_linked' = [fd_linked EXCEPT ![t] = FALSE]
  /\ tpc' = [tpc EXCEPT ![t] = "dead"]
  /\ UNCHANGED <<copy_vars, remaining, clears, sigterm_when, cfg_vars, pid_file,
                 sink, crashed, session_vars>>

\* Lines 120, 141-147: the SIGTERM handler: _copy_clear_cleanup(signum) unlinks
\* the file and calls os._exit(0).  Python runs it between two bytecodes of the
\* main thread, so at any point once it is installed.
TimerSigterm(t) ==
  /\ sigpending[t]
  /\ HandlerInstalled(t)
  /\ Unlink
  /\ sigpending' = [sigpending EXCEPT ![t] = FALSE]
  /\ tpc' = [tpc EXCEPT ![t] = "dead"]
  /\ UNCHANGED <<copy_vars, remaining, clears, sigterm_when, cfg_vars, sink, crashed, session_vars>>

\* An uncatchable signal (SIGKILL) ends a timer with no cleanup.
TimerCrash(t) ==
  /\ Alive(t)
  /\ Cardinality(crashed) < MaxCrashes
  /\ crashed' = crashed \cup {t}
  /\ tpc' = [tpc EXCEPT ![t] = "killed"]
  /\ sigpending' = [sigpending EXCEPT ![t] = FALSE]
  /\ fd_linked' = [fd_linked EXCEPT ![t] = FALSE]
  /\ UNCHANGED <<copy_vars, remaining, clears, sigterm_when, cfg_vars, pid_file, sink, session_vars>>

CopyRun(c) ==
  \/ CancelIsFile(c)
  \/ CancelRead(c)
  \/ \E holder \in Holders : CancelKill(c, holder)
  \/ Communicate(c)
  \/ Fork(c)

CopyStep(c) ==
  \/ \E got \in BOOLEAN : Execute(c, got)
  \/ CopyRun(c)

TimerStep(t) ==
  \/ TimerInstall(t)
  \/ TimerOpen(t)
  \/ TimerWrite(t)
  \/ TimerWake(t)
  \/ TimerClear(t)
  \/ TimerCleanup(t)
  \/ TimerExit(t)
  \/ TimerSigterm(t)

Next ==
  \/ \E c \in Copies : CopyStep(c)
  \/ \E t \in Timers : TimerStep(t)
  \/ \E t \in Timers : TimerCrash(t)
  \/ Tick

Spec == Init /\ [][Next]_vars

\* Once invoked, a copy runs on (the scheduler starves no runnable process), a
\* timer process runs on, and time passes.  Nothing obliges a user to invoke a
\* copy, nor a timer to be killed.
FairSpec ==
  /\ Spec
  /\ \A c \in Copies : WF_vars(CopyRun(c))
  /\ \A t \in Timers : WF_vars(TimerStep(t))
  /\ WF_vars(Tick)

\* ================================================================ claims
\* The copies that were invoked.
Started == {c \in Copies : pc[c] # "idle"}

\* No copy is under way and no timer process is left.
Quiescent ==
  /\ \A c \in Copies : pc[c] \in {"idle", "abandoned", "returned", "raise_ValueError", "raise_OSError"}
  /\ \A t \in Timers : ~Alive(t)

RECURSIVE SumClears(_)
SumClears(S) ==
  IF S = {} THEN 0
  ELSE LET t == CHOOSE x \in S : TRUE IN clears[t] + SumClears(S \ {t})

\* All invocations of the clear sink so far.
TotalClears == SumClears(Timers)

\* C1: with a clear sink configured and no timer killed by an uncatchable
\* signal, a secret in the copy sink is always followed by an invocation of
\* the clear sink (which empties the sink): no secret stays there for ever.
C1_SecretEventuallyCleared ==
  (sink # 0 /\ clear_enabled /\ crashed = {}) ~> (sink = 0 \/ crashed # {})

\* C1 witness: every copy wrote its secret, one of them superseded the other's
\* timer, and the sink has been cleared after the last of them.
C1_Witness ==
  /\ clear_enabled /\ crashed = {} /\ sink = 0
  /\ \A c \in Copies : pc[c] = "returned" /\ tpc[c] = "dead"
  /\ \E c \in Copies : kill_result[c] = "sent"

\* A timer that is alive, was not sent SIGTERM and can still run the clear sink.
PendingClear(t) == Alive(t) /\ sigterm_when[t] = "none" /\ clears[t] = 0

\* C2, as claimed: in every reachable state at most one live timer has not been
\* sent SIGTERM and can still invoke the clear sink.
C2_AtMostOnePendingClear ==
  Cardinality({t \in Timers : PendingClear(t)}) <= 1

\* Copy a has returned, its timer is short of its timeout, and copy b has been
\* invoked and stands before its cancellation step; no other copy was invoked.
Follows(a, b) ==
  /\ Started = {a, b} /\ crashed = {}
  /\ pc[a] = "returned" /\ BeforeTimeout(a)
  /\ pc[b] = "isfile"

\* C3, as claimed: from copy(A) followed, before A's timeout has elapsed, by
\* copy(B), A's timer never invokes the clear sink, and once both timers are
\* over the clear sink was invoked exactly once overall, by B's timer.
C3_SupersessionAsClaimed ==
  \A a, b \in Copies :
    a # b =>
      [](Follows(a, b) =>
           [](\/ crashed # {}
              \/ /\ clears[a] = 0
                 /\ Quiescent /\ tpc[b] = "dead" => TotalClears = 1 /\ clears[b] = 1))

\* Supersession where the SIGTERM arrives in time: when B's cancellation sends
\* SIGTERM to A's timer while that timer is still in its sleep, then once both
\* are over the clear sink was invoked exactly once overall, by B's timer and
\* not by A's.
SupersessionWhileAsleep ==
  \A a, b \in Copies :
    (/\ a # b /\ Started = {a, b}
     /\ kill_result[b] = "sent" /\ pid[b] = a /\ sigterm_when[a] = "sleep"
     /\ crashed = {} /\ Quiescent)
    => (TotalClears = 1 /\ clears[b] = 1 /\ clears[a] = 0)

\* C4: a timer invokes the clear sink only once its timeout has elapsed since
\* it was armed; and for a single copy, with no other copy and no signal, its
\* timer, once through its cleanup, has invoked the clear sink exactly once
\* and the hold-pid file is gone.
C4_ClearFiresAfterTimeout ==
  /\ \A t \in Timers : tpc[t] \in {"clear", "cleanup", "exit"} \/ clears[t] > 0
                         => remaining[t] = 0
  /\ \A c \in Copies :
       (Started = {c} /\ crashed = {} /\ tpc[c] \in {"exit", "dead"})
       => (TotalClears = 1 /\ clears[c] = 1 /\ ~pid_file.exists)

\* C4 witness: the only copy's timer has fired and exited.
C4_Witness ==
  \E c \in Copies : Started = {c} /\ crashed = {} /\ tpc[c] = "dead" /\ clears[c] = 1

\* The hold-pid file names a live timer process.
NamesLiveTimer == pid_file.exists /\ pid_file.text # <<>> /\ Alive(pid_file.text[1])

\* C5: when no timer ended other than by firing or by SIGTERM, the system
\* reaches and stays in a state where the hold-pid file is absent or names a
\* live timer process.
C5_PidFileSettles ==
  <>[](crashed # {} \/ ~pid_file.exists \/ NamesLiveTimer)

\* C5 witness: all copies ran, overlapping so that a timer was cancelled, all
\* timers ended by firing or by SIGTERM, and no hold-pid file is left.
C5_Witness ==
  /\ \A c \in Copies : pc[c] = "returned" /\ tpc[c] = "dead"
  /\ \E t \in Timers : sigterm_when[t] # "none"
  /\ crashed = {} /\ ~pid_file.exists

\* Invocation p's run of the unlock command gave it a token.
Unlocked(p) ==
  unlock_out[p].ran /\ unlock_out[p].rc = 0 /\ Strip(unlock_out[p].out) # <<>>

\* Invocation p's run of the unlock command failed: a non-zero exit, or
\* nothing but whitespace printed.
UnlockFailed(p) ==
  unlock_out[p].ran /\ (unlock_out[p].rc # 0 \/ Strip(unlock_out[p].out) = <<>>)

\* C6: an invocation with a non-empty token in BW_SESSION returns that token;
\* it never runs the unlock command and never reads or writes the cache file.
C6_EnvTokenWins ==
  \A p \in Procs :
    env0[p].val # <<>> =>
      /\ spc[p] \in {"start", "returned"}
      /\ spc[p] = "returned" => token[p] = env0[p].val
      /\ ~unlock_out[p].ran
      /\ cache_reads[p] = 0 /\ cache_writes[p] = 0

\* C6 witness: an invocation returned its environment's token while the cache
\* file held another one.
C6_Witness ==
  \E p \in Procs :
    /\ env0[p].val = <<"e">> /\ spc[p] = "returned" /\ token[p] = <<"e">>
    /\ session_file.exists /\ session_file.text = <<"s">>

\* C7, as claimed: over invocations that share the runtime directory and have
\* no environment token, the unlock command is performed at most once.  (Only
\* the runs that yield a token are counted here; the claim counts them all.)
C7_UnlockAtMostOnce ==
  (\A p \in Procs : env0[p].val = <<>>) =>
    Cardinality({p \in Procs : Unlocked(p)}) <= 1

\* C8, as claimed: when _save_session(token) completes, whatever the file
\* was before, the cache file has mode 0600 and holds exactly the token.
C8_SavedOwnerOnly ==
  [][\A p \in Procs :
       spc[p] = "write" /\ spc'[p] = "setenv" =>
         session_file'.mode = Mode600 /\ session_file'.text = token[p]]_vars

\* C9: when the unlock command exits non-zero or prints nothing but
\* whitespace, Session.unlock raises; the invocation has not created or
\* written the cache file (which is as it was, unless another invocation wrote
\* it) and its BW_SESSION is as it was, holding no token.
C9_UnlockFailureLeavesNoState ==
  \A p \in Procs :
    UnlockFailed(p) =>
      /\ spc[p] \in {"raise_SubprocessError", "raise_ValueError"}
      /\ cache_writes[p] = 0
      /\ (\A q \in Procs : cache_writes[q] = 0) => session_file = session_file0
      /\ env[p] = env0[p] /\ env[p].val = <<>>

\* C9 witness: an unlock that printed only whitespace has raised, and one
\* that exited non-zero has raised, with the cache file as it was.
C9_Witness ==
  \E p, q \in Procs :
    /\ unlock_out[p].ran /\ unlock_out[p].rc = 0 /\ unlock_out[p].out = <<" ">>
    /\ spc[p] = "raise_ValueError"
    /\ unlock_out[q].ran /\ unlock_out[q].rc # 0 /\ spc[q] = "raise_SubprocessError"
    /\ session_file = session_file0

\* C10: a cancellation that finds no process with the pid of the hold-pid
\* file raises nothing: the copy goes on to write its secret to the copy sink
\* and to fork its timer.
C10_CancelNotFoundProceeds ==
  \A c \in Copies :
    kill_result[c] = "notfound" =>
      /\ pc[c] \in {"communicate", "fork", "returned"}
      /\ pc[c] = "returned" /\ clear_enabled => tpc[c] # "none"

\* C10 witness: a copy found the pid of a process that is gone, and has
\* written its secret and forked its timer.
C10_Witness ==
  \E c \in Copies :
    /\ kill_result[c] = "notfound" /\ pc[c] = "returned"
    /\ clear_enabled /\ tpc[c] = "sleep" /\ sink = c

\* C11, as claimed: a cancellation whose os.kill fails with an error other
\* than process-not-found (permission denied) does not abort the copy: the
\* copy goes on to write its secret to the copy sink and to fork its timer.
C11_CancelDeniedProceeds ==
  \A c \in Copies :
    kill_result[c] = "denied" =>
      /\ pc[c] \in {"communicate", "fork", "returned"}
      /\ pc[c] = "returned" /\ clear_enabled => tpc[c] # "none"

\* C12, as claimed: a copy that reads a hold-pid file holding no parsable
\* integer (the empty file between a timer's open and its write) takes it for
\* no pending clear and goes on to write its secret to the copy sink.
C12_CorruptPidFileProceeds ==
  [][\A c \in Copies :
       (pc[c] = "read" /\ pid_file = Truncated /\ pc'[c] # "read")
       => (pc'[c] = "communicate" /\ kill_result'[c] = "none")]_vars

\* C13: a copy whose bw get password fails is abandoned and execute returns
\* normally.  The step that abandons it changes nothing of the hold: no timer
\* is signalled, the copy sink and the hold-pid file are as they were.  The
\* abandoned copy has run no cancellation, has written nothing to the copy
\* sink and has forked no timer, and nothing of it runs afterwards.
C13_AbandonedCopyTouchesNothing ==
  /\ [](\A c \in Copies :
          pc[c] = "abandoned" =>
            /\ kill_result[c] = "none" /\ pid[c] = 0
            /\ tpc[c] = "none" /\ sink # c)
  /\ [][\A c \in Copies :
          pc'[c] = "abandoned" =>
            /\ pc[c] \in {"idle", "abandoned"}
            /\ pc[c] = "idle" => UNCHANGED <<timer_vars, pid_file, sink>>]_vars

\* C13 witness: a copy was abandoned while another copy's timer was pending;
\* that timer sleeps on unsignalled, named by the hold-pid file, with its
\* secret in the copy sink.
C13_Witness ==
  \E c \in Copies, t \in Timers :
    /\ pc[c] = "abandoned"
    /\ pid_file = Written(t) /\ tpc[t] = "sleep" /\ ~sigpending[t] /\ sink = t

\* C14, as claimed: once a copy has sent SIGTERM to a timer and has written
\* its secret to the copy sink, that timer does not invoke the clear sink.
C14_SupersededNeverClears ==
  [][\A t \in Timers :
       clears'[t] # clears[t] =>
         ~\E c \in Copies :
            /\ kill_result[c] = "sent" /\ pid[c] = t
            /\ pc[c] \in {"fork", "returned"}]_vars

\* C14, amended: a timer that was still in its sleep when a copy sent it
\* SIGTERM never invokes the clear sink: it leaves its sleep only by ending.
\* (A timer that had woken when the SIGTERM was sent may still clear.)
C14_CancelledAsleepNeverClears ==
  \A t \in Timers :
    sigterm_when[t] = "sleep" =>
      clears[t] = 0 /\ tpc[t] \in {"sleep", "dead", "killed"}

\* C14 witness: a copy sent SIGTERM to a sleeping timer whose timeout had
\* elapsed, wrote its secret, and the timer is gone without having cleared:
\* the secret is still in the copy sink.
C14_Witness ==
  \E c \in Copies, t \in Timers :
    /\ kill_result[c] = "sent" /\ pid[c] = t /\ sigterm_when[t] = "sleep"
    /\ remaining[t] = 0 /\ tpc[t] = "dead" /\ clears[t] = 0
    /\ pc[c] = "returned" /\ sink = c

\* C15, as claimed: in every reachable state a timer that has written its pid,
\* is in its sleep and was not sent SIGTERM is the one the hold-pid file names.
C15_SleepingTimerIsNamed ==
  \A t \in Timers :
    tpc[t] = "sleep" /\ sigterm_when[t] = "none" => pid_file = Written(t)

\* C16, as claimed: a timer q that takes over a hold-pid file naming a live
\* timer p (q's write_text opens the file and truncates p's pid away) was
\* forked by a copy that has sent SIGTERM to p.
C16_TransferOnlyByCancellation ==
  [][\A p, q \in Timers :
       (/\ p # q /\ pid_file = Written(p) /\ Alive(p)
        /\ tpc[q] = "open" /\ tpc'[q] = "write")
       => (kill_result[q] = "sent" /\ pid[q] = p)]_vars

\* C17: a timer ends (other than by an uncatchable signal) in one of two ways:
\* fired, through the finally clause after its clear, or cancelled, in the
\* SIGTERM handler; either way the hold-pid file has been unlinked before the
\* process exits, and a timer that has ended does not leave the pid it wrote
\* in the file.  The handler is installed before the pid is written: a timer
\* named by the file, and any live timer a SIGTERM is pending for, has its
\* handler.
C17_TimerEndsThroughCleanup ==
  /\ [](\A t \in Timers :
          /\ pid_file = Written(t) /\ Alive(t) => HandlerInstalled(t)
          /\ sigpending[t] /\ Alive(t) => HandlerInstalled(t)
          /\ tpc[t] \in {"exit", "dead"} => pid_file # Written(t))
  /\ [][\A t \in Timers :
          tpc'[t] = "dead" /\ tpc[t] # "dead" =>
            \/ tpc[t] = "exit" /\ clears[t] = 1 /\ pid_file' # Written(t)
            \/ sigpending[t] /\ HandlerInstalled(t) /\ pid_file' = Absent]_vars

\* C17 witness: one timer was sent SIGTERM while it ran the clear command and
\* ended in its handler, another fired and ended through the finally clause;
\* no hold-pid file is left.
C17_Witness ==
  \E t, u \in Timers :
    /\ tpc[t] = "dead" /\ sigterm_when[t] = "clear"
    /\ tpc[u] = "dead" /\ sigterm_when[u] = "none" /\ clears[u] = 1
    /\ pid_file = Absent

\* C18: a copy that reads from a stale hold-pid file the pid of a timer that
\* was killed without cleanup, and finds no such process, goes on to write its
\* secret and to fork its timer; from the moment its timer has opened the file
\* the file no longer names the dead timer, and with no other copy about, the
\* file names the new timer once that timer is armed.  (What happens when the
\* dead timer's id is held by another process by then is the matter of C11
\* and C20.)
C18_OrphanRecovery ==
  \A c \in Copies :
    (kill_result[c] = "notfound" /\ pid[c] \in crashed) =>
      /\ pc[c] \in {"communicate", "fork", "returned"}
      /\ tpc[c] \in {"write", "sleep", "clear", "cleanup", "exit", "dead"}
           => pid_file # Written(pid[c])
      /\ Started = {c, pid[c]} /\ tpc[c] = "sleep" => pid_file = Written(c)

\* C18 witness: the timer of one copy was killed with its pid in the file; the
\* next copy found no such process, and its own armed timer is now named.
C18_Witness ==
  \E c \in Copies :
    /\ kill_result[c] = "notfound" /\ pid[c] \in crashed /\ tpc[pid[c]] = "killed"
    /\ pc[c] = "returned" /\ tpc[c] = "sleep" /\ pid_file = Written(c)

\* C19, as claimed: an invocation with no environment token that reads the
\* cache file runs no unlock command where the file holds a token, and takes
\* the file's text with leading and trailing whitespace removed for its
\* token; where the file is missing, empty or holds only whitespace it goes
\* on to a fresh unlock.
C19_CacheTokenTrimmed ==
  [][\A p \in Procs :
       (spc[p] = "load" /\ spc'[p] # "load") =>
         LET text == IF session_file.exists THEN session_file.text ELSE <<>> IN
           IF Strip(text) = <<>>
             THEN spc'[p] = "unlock"
             ELSE /\ spc'[p] = "setenv" /\ token'[p] = Strip(text)
                  /\ ~unlock_out'[p].ran]_vars

\* C20, as claimed: no copy's cancellation step sends SIGTERM to a process
\* that is not a timer of bwx.
C20_SignalsOnlyTimers ==
  \A c \in Copies : kill_result[c] # "foreign"

====
